---- MODULE Spec2Model ----
(***************************************************************************)
(* Model of src/main.py: a Streamlit script that loads a road-safety CSV   *)
(* through a memoised loader, geocodes two addresses, asks OSRM for a      *)
(* route, searches the dataset for records near the route and renders a    *)
(* map with markers and metrics.  One behaviour of the model is a series   *)
(* of script runs (Streamlit re-executes the script on every interaction). *)
(*                                                                         *)
(* Coordinates are integers in units of 0.001 degree; projected            *)
(* coordinates are integers in metres.                                     *)
(***************************************************************************)
EXTENDS Integers, Sequences, FiniteSets

(* ---------------------------------------------------------------------- *)
(* Bounds                                                                 *)
(* ---------------------------------------------------------------------- *)
\* Largest number of data rows of an input file.
MaxRows == 2

(* ---------------------------------------------------------------------- *)
(* Program constants                                                      *)
(* ---------------------------------------------------------------------- *)
\* r of tree.query_ball_point, in 0.001 degree (r=0.003).
Radius == 3
\* len(path_points) > 100 triggers sampling.
SampleThreshold == 100
\* path_points[::5]
SampleStep == 5
\* Stand-in for the non-finite float (inf/nan) that the projection yields for
\* a missing cell; it lies outside every finite range, as inf does.
NonFinite == 999999999

(* ---------------------------------------------------------------------- *)
(* Input files                                                            *)
(* ---------------------------------------------------------------------- *)
Num(v) == [kind |-> "num", v |-> v]
\* an empty cell: pandas reads it as NaN
MissingCell == [kind |-> "nan", v |-> 0]
\* a cell holding text that is not a number
TextCell == [kind |-> "str", v |-> 0]

Row(name, x, y, grade, risk) ==
    [name |-> name, x |-> x, y |-> y, grade |-> grade, risk |-> risk]

\* The rows an input file is made of.  x is the northing and y the easting
\* (see transform_coords).  449880/209659 is the sample row quoted in the
\* source comments.
CandidateRows ==
    { Row("n1", Num(449880), Num(209659), "A", 20),
      Row("n2", Num(450324), Num(209659), "D", 85),
      Row("n1", Num(451100), Num(209659), "C", 70),
      Row("n3", MissingCell, Num(209659), "B", 40),
      Row("n4", TextCell, Num(209659), "E", 90),
      Row("n5", Num(5000000), Num(209659), "A", 10) }

RECURSIVE SeqsUpTo(_, _)
SeqsUpTo(S, n) ==
    IF n = 0 THEN { <<>> }
    ELSE LET shorter == SeqsUpTo(S, n - 1)
         IN  shorter \cup { Append(s, r) : s \in { t \in shorter : Len(t) = n - 1 }, r \in S }

File(readable, coordCols, keepCols, rows) ==
    [readable |-> readable, coordCols |-> coordCols, keepCols |-> keepCols, rows |-> rows]

SampleRow == Row("n1", Num(449880), Num(209659), "A", 20)

\* a path that cannot be read (absent file, undecodable bytes)
UnreadableFile == File(FALSE, FALSE, FALSE, <<>>)
\* a CSV without the x좌표 / y좌표 columns
NoCoordColsFile == File(TRUE, FALSE, TRUE, <<SampleRow>>)
\* a CSV without one of the columns of cols_to_keep
NoKeepColsFile == File(TRUE, TRUE, FALSE, <<SampleRow>>)

Files ==
    { File(TRUE, TRUE, TRUE, rows) : rows \in SeqsUpTo(CandidateRows, MaxRows) }
      \cup { UnreadableFile, NoCoordColsFile, NoKeepColsFile }

\* What the file at data_file can be replaced by between two runs.
ReplacementFiles == { UnreadableFile, File(TRUE, TRUE, TRUE, <<SampleRow>>) }

(* ---------------------------------------------------------------------- *)
(* load_and_process_data                                                  *)
(* ---------------------------------------------------------------------- *)
\* transformer.transform(easting, northing) of EPSG:5174 -> EPSG:4326,
\* linearised around the origin of the projection (38N, 127.0029E, false
\* easting 200000 m, false northing 500000 m): 111 m per 0.001 degree of
\* latitude, 88 m per 0.001 degree of longitude.  A NaN input gives a
\* non-finite output.
transform(easting, northing) ==
    IF easting.kind = "nan" \/ northing.kind = "nan"
    THEN [lat |-> NonFinite, lon |-> NonFinite]
    ELSE [lat |-> 38000 + ((northing.v - 500000) \div 111),
          lon |-> 127003 + ((easting.v - 200000) \div 88)]

\* transform_coords raises for a row with a cell that is not a number
transform_raises(row) == row.x.kind = "str" \/ row.y.kind = "str"

\* transform_coords(row) followed by the selection of cols_to_keep
transform_coords(row) ==
    LET c == transform(row.y, row.x)
    IN  [name |-> row.name, grade |-> row.grade, risk |-> row.risk,
         lat |-> c.lat, lon |-> c.lon]

\* The body of the try block raises.
load_raises(f) ==
    \/ ~f.readable
    \/ ~f.coordCols
    \/ \E i \in 1..Len(f.rows) : transform_raises(f.rows[i])
    \/ ~f.keepCols
    \/ Len(f.rows) = 0

\* An except branch that swallows the exception without a message.
except_silent == {}

\* The messages of the except branch.
except_messages == { "load_error" }

\* One execution of the body of load_and_process_data: the returned frame
\* and the elements it put on the page.
load_and_process_data(f) ==
    IF load_raises(f)
    THEN [value |-> <<>>, msgs |-> except_messages]
    ELSE [value |-> [i \in 1..Len(f.rows) |-> transform_coords(f.rows[i])],
          msgs |-> {}]

\* A loader without memoisation: every call runs the body.
cache_hit_never(c) == FALSE

\* @st.cache_data: is there an entry for the call load_and_process_data(data_file)
cache_hit(c) == c.present

\* df_safety.empty
df_empty(df) == Len(df) = 0

(* ---------------------------------------------------------------------- *)
(* get_coordinates                                                        *)
(* ---------------------------------------------------------------------- *)
\* A (lat, lon) pair as returned by get_coordinates; none stands for
\* (None, None).
Coords(lat, lon) == [none |-> FALSE, lat |-> lat, lon |-> lon]
NoCoords == [none |-> TRUE, lat |-> 0, lon |-> 0]

\* What the geocoder can do with an address: raise, find nothing, or find a
\* location.
GeocodeOutcomes == { "raise", "none", "found" }
\* The locations the geocoder can return; (0, 0) is a legal location.
Locations == { Coords(37548, 127112), Coords(0, 0) }

get_coordinates(outcome, location) ==
    IF outcome = "found" THEN location ELSE NoCoords

\* Python truth value of a latitude: None and 0.0 are false.
truthy(c) == ~c.none /\ c.lat # 0

\* The check written with "and": only a double failure is caught.
geocode_failed_both(s, e) == ~truthy(s) /\ ~truthy(e)

\* not start_lat or not end_lat
geocode_failed(s, e) == ~truthy(s) \/ ~truthy(e)

(* ---------------------------------------------------------------------- *)
(* get_osrm_route                                                         *)
(* ---------------------------------------------------------------------- *)
\* A route geometry of n points going north from lat0 in steps of step, on
\* the meridian of the sample row.
Route(n, lat0, step) == [none |-> FALSE, n |-> n, lat0 |-> lat0, step |-> step]
NoRoute == [none |-> TRUE, n |-> 0, lat0 |-> 0, step |-> 0]

RouteOutcomes == { "raise", "not_ok", "ok" }
Routes ==
    { Route(2, 37548, 10), Route(2, 37547, 2),
      Route(SampleThreshold, 37538, 10), Route(SampleThreshold + 1, 37538, 10) }

\* A routing call that does not look at the response code.
get_osrm_route_unchecked(outcome, route) ==
    IF outcome = "raise" THEN NoRoute ELSE route

get_osrm_route(outcome, route) ==
    IF outcome = "ok" THEN route ELSE NoRoute

\* path_latlon[i - 1]
path_point(route, i) == [lat |-> route.lat0 + (i - 1) * route.step, lon |-> 127112]

(* ---------------------------------------------------------------------- *)
(* nearby search                                                          *)
(* ---------------------------------------------------------------------- *)
\* The positions (1-based) of path_latlon that make up path_points.
sampled_positions(route) ==
    IF route.n > SampleThreshold
    THEN { i \in 1..route.n : (i - 1) % SampleStep = 0 }
    ELSE 1..route.n

finite(rec) == rec.lat # NonFinite /\ rec.lon # NonFinite

\* Is rec within Euclidean distance r of point p.
within(rec, p, r) ==
    /\ finite(rec)
    /\ (rec.lat - p.lat) * (rec.lat - p.lat) + (rec.lon - p.lon) * (rec.lon - p.lon) <= r * r

\* tree.query_ball_point(p, r): the rows of df within r of p
query_ball_point(df, p, r) == { k \in 1..Len(df) : within(df[k], p, r) }

\* unique_indices: the union of the index lists of all path points
unique_indices(df, route) ==
    UNION { query_ball_point(df, path_point(route, i), Radius) : i \in sampled_positions(route) }

\* cKDTree(...) rejects or accepts non-finite data depending on the library
\* version.
tree_may_raise(df) == \E k \in 1..Len(df) : ~finite(df[k])

(* ---------------------------------------------------------------------- *)
(* rendering                                                              *)
(* ---------------------------------------------------------------------- *)
Modes == { "driving", "walking" }

\* A marker loop that keeps only the grades D and E in walking mode.
marker_drawn_DE(mode, grade) ==
    ~(mode = "walking" /\ grade \notin { "D", "E" })

\* The marker loop: does a nearby row with this grade get a CircleMarker.
marker_drawn(mode, grade) ==
    ~(mode = "walking" /\ grade \notin { "D", "E", "C" })

\* The rows idxmax can pick: those with the largest risk value.
max_risk_rows(df, near) ==
    { k \in near : \A j \in near : df[j].risk <= df[k].risk }

(* ---------------------------------------------------------------------- *)
(* State                                                                  *)
(* ---------------------------------------------------------------------- *)
VARIABLES
    file,          \* content of the file at data_file
    cache,         \* st.cache_data entry of load_and_process_data(data_file)
    buildCount,    \* executions of the body of load_and_process_data (0, 1, 2 = more)
    fileAtBuild,   \* content of the file when the cache entry was built
    pc,            \* position of the current script run
    loadOutcome,   \* how this run got df_safety: "none", "built", "cache_hit"
    df_safety,     \* the dataset of this run
    routing_mode,
    search_btn,
    start_coords,  \* (start_lat, start_lon)
    end_coords,    \* (end_lat, end_lon)
    startOutcome,  \* what the geocoder did with start_input
    endOutcome,    \* what the geocoder did with end_input
    geocodeReqs,   \* geocoding requests sent in this run
    routeReqs,     \* routing requests sent in this run
    routeOutcome,  \* what the routing service did
    route_data,
    nearby,        \* nearby_risks, as row positions of df_safety
    markers,       \* row positions that got a CircleMarker
    count,         \* value of the metric "주변 위험 요소 감지"
    maxPoint,      \* row of the metric "최대 위험 지점" (0: not shown)
    shown          \* elements put on the page in this run

vars == << file, cache, buildCount, fileAtBuild, pc, loadOutcome, df_safety,
           routing_mode, search_btn, start_coords, end_coords, startOutcome,
           endOutcome, geocodeReqs, routeReqs, routeOutcome, route_data,
           nearby, markers, count, maxPoint, shown >>

stored == << file, cache, buildCount, fileAtBuild >>
query == << start_coords, end_coords, startOutcome, endOutcome, geocodeReqs,
            routeReqs, routeOutcome, route_data >>
analysis == << nearby, markers, count, maxPoint >>

EmptyCache == [present |-> FALSE, value |-> <<>>, msgs |-> {}]

\* The state of a script run before its first statement.
FreshRun ==
    /\ pc = "load"
    /\ loadOutcome = "none"
    /\ df_safety = <<>>
    /\ routing_mode = "driving"
    /\ search_btn = FALSE
    /\ start_coords = NoCoords
    /\ end_coords = NoCoords
    /\ startOutcome = "none"
    /\ endOutcome = "none"
    /\ geocodeReqs = 0
    /\ routeReqs = 0
    /\ routeOutcome = "none"
    /\ route_data = NoRoute
    /\ nearby = {}
    /\ markers = {}
    /\ count = 0
    /\ maxPoint = 0
    /\ shown = {}

Init ==
    /\ file \in Files
    /\ cache = EmptyCache
    /\ buildCount = 0
    /\ fileAtBuild = UnreadableFile
    /\ FreshRun

(* ---------------------------------------------------------------------- *)
(* Actions                                                                *)
(* ---------------------------------------------------------------------- *)
\* df_safety = load_and_process_data(data_file) under @st.cache_data, then
\* the emptiness check with st.warning and st.stop().
LoadData ==
    /\ pc = "load"
    /\ LET hit == cache_hit(cache)
           res == IF hit THEN [value |-> cache.value, msgs |-> cache.msgs]
                  ELSE load_and_process_data(file)
       IN  /\ cache' = [present |-> TRUE, value |-> res.value, msgs |-> res.msgs]
           /\ buildCount' = IF hit THEN buildCount
                            ELSE IF buildCount < 2 THEN buildCount + 1 ELSE 2
           /\ fileAtBuild' = IF hit THEN fileAtBuild ELSE file
           /\ loadOutcome' = IF hit THEN "cache_hit" ELSE "built"
           /\ df_safety' = res.value
           /\ IF df_empty(res.value)
              THEN /\ shown' = shown \cup res.msgs \cup { "load_warning" }
                   /\ pc' = "stopped"
              ELSE /\ shown' = shown \cup res.msgs
                   /\ pc' = "sidebar"
    /\ UNCHANGED << file, routing_mode, search_btn, query, analysis >>

\* The sidebar widgets, and the else branch of "if search_btn" (initial map).
Sidebar ==
    /\ pc = "sidebar"
    /\ \E m \in Modes, b \in BOOLEAN :
         /\ routing_mode' = m
         /\ search_btn' = b
         /\ IF b
            THEN /\ pc' = "geocode_start"
                 /\ shown' = shown
            ELSE /\ pc' = "done"
                 /\ shown' = shown \cup { "initial_map" }
    /\ UNCHANGED << stored, loadOutcome, df_safety, query, analysis >>

\* start_lat, start_lon = get_coordinates(start_input)
GeocodeStart ==
    /\ pc = "geocode_start"
    /\ \E o \in GeocodeOutcomes, l \in Locations :
         /\ startOutcome' = o
         /\ start_coords' = get_coordinates(o, l)
    /\ geocodeReqs' = geocodeReqs + 1
    /\ pc' = "geocode_end"
    /\ UNCHANGED << stored, loadOutcome, df_safety, routing_mode, search_btn,
                    end_coords, endOutcome, routeReqs, routeOutcome, route_data,
                    analysis, shown >>

\* end_lat, end_lon = get_coordinates(end_input), then the check of both
\* results.
GeocodeEnd ==
    /\ pc = "geocode_end"
    /\ \E o \in GeocodeOutcomes, l \in Locations :
         /\ endOutcome' = o
         /\ end_coords' = get_coordinates(o, l)
    /\ geocodeReqs' = geocodeReqs + 1
    /\ IF geocode_failed(start_coords, end_coords')
       THEN /\ shown' = shown \cup { "geocode_error" }
            /\ pc' = "done"
       ELSE /\ shown' = shown
            /\ pc' = "route"
    /\ UNCHANGED << stored, loadOutcome, df_safety, routing_mode, search_btn,
                    start_coords, startOutcome, routeReqs, routeOutcome,
                    route_data, analysis >>

\* route_data = get_osrm_route(...), then "if route_data" up to st.success,
\* or the else branch with st.error.
RouteRequest ==
    /\ pc = "route"
    /\ \E o \in RouteOutcomes, r \in Routes :
         /\ routeOutcome' = o
         /\ route_data' = get_osrm_route(o, r)
    /\ routeReqs' = routeReqs + 1
    /\ IF route_data'.none
       THEN /\ shown' = shown \cup { "route_error" }
            /\ pc' = "done"
       ELSE /\ shown' = shown \cup { "success" }
            /\ pc' = "analyse"
    /\ UNCHANGED << stored, loadOutcome, df_safety, routing_mode, search_btn,
                    start_coords, end_coords, startOutcome, endOutcome,
                    geocodeReqs, analysis >>

\* The nearby search, the map with route line and markers, and the metrics.
Analyse ==
    /\ pc = "analyse"
    /\ LET near == unique_indices(df_safety, route_data)
       IN  /\ nearby' = near
           /\ markers' = { k \in near : marker_drawn(routing_mode, df_safety[k].grade) }
           /\ count' = Cardinality(near)
           /\ IF near = {}
              THEN /\ maxPoint' = 0
                   /\ shown' = shown \cup { "map", "route_line", "endpoints", "metrics" }
              ELSE /\ maxPoint' \in max_risk_rows(df_safety, near)
                   /\ shown' = shown \cup { "map", "route_line", "endpoints", "markers",
                                            "metrics", "max_metric", "details" }
    /\ pc' = "done"
    /\ UNCHANGED << stored, loadOutcome, df_safety, routing_mode, search_btn, query >>

\* cKDTree raises on non-finite data: the exception leaves the script.
AnalyseRaises ==
    /\ pc = "analyse"
    /\ tree_may_raise(df_safety)
    /\ pc' = "crashed"
    /\ shown' = shown \cup { "exception" }
    /\ UNCHANGED << stored, loadOutcome, df_safety, routing_mode, search_btn,
                    query, analysis >>

RunEnded == pc \in { "done", "stopped", "crashed" }

\* Any interaction makes Streamlit run the script again from the top.
Rerun ==
    /\ RunEnded
    /\ pc' = "load"
    /\ loadOutcome' = "none"
    /\ df_safety' = <<>>
    /\ routing_mode' = "driving"
    /\ search_btn' = FALSE
    /\ start_coords' = NoCoords
    /\ end_coords' = NoCoords
    /\ startOutcome' = "none"
    /\ endOutcome' = "none"
    /\ geocodeReqs' = 0
    /\ routeReqs' = 0
    /\ routeOutcome' = "none"
    /\ route_data' = NoRoute
    /\ nearby' = {}
    /\ markers' = {}
    /\ count' = 0
    /\ maxPoint' = 0
    /\ shown' = {}
    /\ UNCHANGED stored

\* The file at data_file is replaced between two runs.
ChangeFile ==
    /\ RunEnded
    /\ \E f \in ReplacementFiles :
         /\ f # file
         /\ file' = f
    /\ UNCHANGED << cache, buildCount, fileAtBuild, pc, loadOutcome, df_safety,
                    routing_mode, search_btn, query, analysis, shown >>

Next ==
    \/ LoadData
    \/ Sidebar
    \/ GeocodeStart
    \/ GeocodeEnd
    \/ RouteRequest
    \/ Analyse
    \/ AnalyseRaises
    \/ Rerun
    \/ ChangeFile

Spec == Init /\ [][Next]_vars

TypeOK ==
    /\ file \in Files \cup ReplacementFiles
    /\ buildCount \in 0..2
    /\ pc \in { "load", "sidebar", "geocode_start", "geocode_end", "route",
                "analyse", "done", "stopped", "crashed" }
    /\ routing_mode \in Modes
    /\ search_btn \in BOOLEAN
    /\ nearby \subseteq 1..Len(df_safety)
    /\ markers \subseteq nearby

(* ---------------------------------------------------------------------- *)
(* Properties                                                             *)
(* ---------------------------------------------------------------------- *)
Loaded == loadOutcome # "none"
Rendered == { "map", "route_line", "endpoints", "markers", "metrics",
              "max_metric", "details" }

\* C1: every record of a loaded dataset lies in the bounding box
\* 33.0 <= lat <= 39.0, 124.0 <= lon <= 133.0.
C1_BoundingBox ==
    Loaded =>
        \A k \in 1..Len(df_safety) :
            /\ 33000 <= df_safety[k].lat /\ df_safety[k].lat <= 39000
            /\ 124000 <= df_safety[k].lon /\ df_safety[k].lon <= 133000

\* C2: when the load of the file fails, the error diagnostic is shown, the
\* dataset is empty and the run halts: no geocoding request, no routing
\* request and no map or metric in that run.
C2_LoadFailureHalts ==
    (Loaded /\ load_raises(fileAtBuild)) =>
        /\ "load_error" \in shown
        /\ df_safety = <<>>
        /\ pc = "stopped"
        /\ geocodeReqs = 0
        /\ routeReqs = 0
        /\ shown \cap (Rendered \cup { "initial_map", "success" }) = {}

C2_Witness ==
    /\ loadOutcome = "built"
    /\ load_raises(fileAtBuild)
    /\ fileAtBuild.readable
    /\ pc = "stopped"
    /\ "load_error" \in shown

\* A row whose coordinate cells are both numbers.
GoodRow(row) == row.x.kind = "num" /\ row.y.kind = "num"

RECURSIVE GoodRecords(_)
GoodRecords(rows) ==
    IF rows = <<>> THEN <<>>
    ELSE IF GoodRow(Head(rows))
         THEN <<transform_coords(Head(rows))>> \o GoodRecords(Tail(rows))
         ELSE GoodRecords(Tail(rows))

\* C3: a row with a missing or non-numeric coordinate cell is left out of
\* the dataset and every other row of the file is loaded.
C3_BadRowsExcluded ==
    (/\ loadOutcome = "built"
     /\ fileAtBuild.readable /\ fileAtBuild.coordCols /\ fileAtBuild.keepCols)
        => df_safety = GoodRecords(fileAtBuild.rows)

\* C4: the body of the loader runs at most once for the path, and every load
\* returns the dataset of that one build, a failed build included.
C4_BuiltOnce ==
    /\ buildCount <= 1
    /\ Loaded => df_safety = load_and_process_data(fileAtBuild).value
    /\ (loadOutcome = "cache_hit" /\ file = fileAtBuild)
           => df_safety = load_and_process_data(file).value

C4_Witness ==
    /\ loadOutcome = "cache_hit"
    /\ buildCount = 1
    /\ load_raises(fileAtBuild)
    /\ df_safety = <<>>
    /\ file = fileAtBuild

Failing == { "raise", "none" }
QueryFailed ==
    /\ search_btn
    /\ \/ startOutcome \in Failing
       \/ endOutcome \in Failing
       \/ routeOutcome \in { "raise", "not_ok" }

\* C5: a search whose geocoding or routing failed never reaches the analysis
\* and raises nothing; it ends with an error message and without route line,
\* markers or metrics.
C5_QueryFailureReported ==
    QueryFailed =>
        /\ pc \notin { "analyse", "crashed" }
        /\ "exception" \notin shown
        /\ shown \cap (Rendered \cup { "success" }) = {}
        /\ markers = {}
        /\ pc = "done" => shown \cap { "geocode_error", "route_error" } # {}

C5_Witness ==
    /\ pc = "done"
    /\ routeOutcome = "not_ok"
    /\ startOutcome = "found"
    /\ endOutcome = "found"
    /\ "route_error" \in shown

\* C6: no two records of a loaded dataset have the same name.
C6_NamesUnique ==
    Loaded =>
        \A i, j \in 1..Len(df_safety) :
            df_safety[i].name = df_safety[j].name => i = j

\* C7: the reported count of nearby risk points is the number of nearby
\* records with a risk value of at least 70.
C7_CountsHighRiskOnly ==
    "metrics" \in shown =>
        count = Cardinality({ k \in nearby : df_safety[k].risk >= 70 })

\* C8: the nearby set is the set of records within 0.005 degree of a sampled
\* route point: all points of a route of at most 100 points, every fifth
\* point from the first one otherwise.
C8_NearbyWithin005 ==
    "metrics" \in shown =>
        nearby =
            { k \in 1..Len(df_safety) :
                \E i \in 1..route_data.n :
                    /\ route_data.n > 100 => (i - 1) % 5 = 0
                    /\ within(df_safety[k], path_point(route_data, i), 5) }

\* C9: at most one routing request per run, and only after the search button
\* was pressed and both addresses were geocoded successfully.
C9_RoutingAfterGeocoding ==
    /\ routeReqs <= 1
    /\ routeReqs = 1 =>
           /\ search_btn
           /\ geocodeReqs = 2
           /\ startOutcome = "found"
           /\ endOutcome = "found"
    /\ pc = "route" => (startOutcome = "found" /\ endOutcome = "found")

C9_Witness ==
    /\ routeReqs = 1
    /\ geocodeReqs = 2
    /\ search_btn

====
